---- MODULE Spec2Model ----
(***************************************************************************)
(* Model of hand_tracking_app.py: the rule-based sign classifier           *)
(* (SignLanguageRecognizer.recognize_sign), the hold timer                 *)
(* (SignLanguageRecognizer.is_sign_ready), the capture loop                *)
(* (SignLanguageTranslator.update_frame) with the camera and recognition   *)
(* controls, the transcript operations (add_sign, add_space, backspace,    *)
(* clear_text), and the threads: the update_frame threads that             *)
(* start_camera starts and the Tk main thread that runs the handlers.      *)
(*                                                                         *)
(* Units.  Landmark coordinates are integers in hundredths of the          *)
(* normalised frame (x = 50 is 0.50).  A distance is kept as its square,   *)
(* so the code's  d < 0.08  reads  dsq < 8*8.  Time is in tenths of a      *)
(* second, so the cooldown 1.5 is 15.  Comparisons are those of exact       *)
(* arithmetic: the rounding of the code's floats at a distance exactly on  *)
(* a threshold is not modelled.                                            *)
(*                                                                         *)
(* Not modelled: widget texts other than the word counter label, the       *)
(* hold_progress percentage (display only, never read back by the logic),  *)
(* drawing, the FPS counter, save_text and speak_text (they only read the  *)
(* buffer).                                                                *)
(***************************************************************************)
EXTENDS Integers, Sequences, FiniteSets, TLC

VARIABLES
    landmarks,      \* classifier input: 21 landmarks, index -> [x, y, z]
    result,         \* classifier output for landmarks, or Pending
    now,            \* the clock read by time.time(), tenths of a second
    last_sign,      \* recognizer.last_sign
    last_sign_time, \* recognizer.last_sign_time
    running,        \* self.running
    enabled,        \* self.enabled
    cap,            \* self.cap: "none", "open", "failed", "released"
    btn,            \* which of the start / stop / enable buttons are clickable
    current_sign,   \* self.current_sign
    current_text,   \* self.current_text, a sequence of characters
    sign_history,   \* self.sign_history, deque(maxlen=10)
    total_signs,    \* self.total_signs
    words_label,    \* the number shown by self.words_label ("Words: n")
    appended,       \* history variable: signs passed to add_sign since the last clear
    interrupted,    \* history variable: a frame classified to no sign since the
                    \* hold start (last_sign_time) was last set
    op,             \* history variable: the operation that produced this state
    capture,        \* the capture thread inside add_sign: where it is, the sign,
                    \* and the values it has loaded for its two += statements
    ui,             \* the Tk main thread inside a transcript handler: where it
                    \* is and the buffer value it has loaded
    log,            \* history variable: the add_sign calls of the capture thread
                    \* and the handlers of the main thread, each in call order
    loops           \* the update_frame threads started so far, oldest first:
                    \* where each one is

classVars == <<landmarks, result>>
recVars   == <<last_sign, last_sign_time>>
camVars   == <<running, enabled, cap, btn, current_sign>>
textVars  == <<current_text, sign_history, total_signs, words_label, appended>>
threadVars == <<capture, ui, log, loops>>
vars      == <<landmarks, result, now, last_sign, last_sign_time, running, enabled,
               cap, btn, current_sign, current_text, sign_history, total_signs,
               words_label, appended, interrupted, op, capture, ui, log, loops>>

\* Python's None, as a sign value.
None == "None"
\* The classifier has not run on landmarks yet.
Pending == "pending"

(***************************************************************************)
(* Landmark features                                                       *)
(***************************************************************************)

\* 1 iff the finger is extended, in the order thumb, index, middle, ring, pinky.
get_finger_status(lm) ==
    << IF lm[4].x < lm[3].x THEN 1 ELSE 0,
       IF lm[8].y < lm[6].y THEN 1 ELSE 0,
       IF lm[12].y < lm[10].y THEN 1 ELSE 0,
       IF lm[16].y < lm[14].y THEN 1 ELSE 0,
       IF lm[20].y < lm[18].y THEN 1 ELSE 0 >>

\* sum(fingers)
sum_fingers(f) == f[1] + f[2] + f[3] + f[4] + f[5]

\* The square of get_distance(p1, p2).
get_distance_sq(p1, p2) ==
    (p1.x - p2.x) * (p1.x - p2.x) + (p1.y - p2.y) * (p1.y - p2.y)
        + (p1.z - p2.z) * (p1.z - p2.z)

\* math.atan2(dy, dx) in degrees, for the directions the model's hands use:
\* the axes and the diagonals (and the zero vector, for which atan2 is 0).
atan2_deg(dy, dx) ==
    CASE dy = 0 /\ dx >= 0 -> 0
      [] dy = 0 /\ dx < 0  -> 180
      [] dx = 0 /\ dy > 0  -> 90
      [] dx = 0 /\ dy < 0  -> -90
      [] dy = dx /\ dx > 0 -> 45
      [] dy = dx /\ dx < 0 -> -135
      [] dy = -dx /\ dx > 0 -> -45
      [] dy = -dx /\ dx < 0 -> 135

\* get_angle(p1, p2, p3), degrees.
get_angle(p1, p2, p3) ==
    LET d == atan2_deg(p3.y - p2.y, p3.x - p2.x) - atan2_deg(p1.y - p2.y, p1.x - p2.x)
        angle == IF d < 0 THEN -d ELSE d
    IN  IF angle > 180 THEN 360 - angle ELSE angle

(***************************************************************************)
(* The classifier                                                          *)
(***************************************************************************)

\* recognize_sign with the L rule returning None when its angle test fails
\* instead of falling through to the rules after it.
recognize_sign_L_returns(lm) ==
    LET fingers == get_finger_status(lm)
        thumb_index_dsq == get_distance_sq(lm[4], lm[8])
        thumb_middle_dsq == get_distance_sq(lm[4], lm[12])
        index_middle_dsq == get_distance_sq(lm[8], lm[12])
    IN  IF fingers = <<1, 0, 0, 0, 0>> /\ lm[4].y > lm[8].y THEN "A"
        ELSE IF fingers = <<0, 1, 1, 1, 1>> THEN "B"
        ELSE IF sum_fingers(fingers) >= 3 /\ thumb_index_dsq > 10 * 10
                /\ thumb_index_dsq < 25 * 25 THEN "C"
        ELSE IF fingers = <<1, 1, 0, 0, 0>> /\ thumb_middle_dsq < 8 * 8 THEN "D"
        ELSE IF sum_fingers(fingers) = 0 THEN "E"
        ELSE IF fingers = <<1, 1, 1, 1, 1>> /\ thumb_index_dsq < 8 * 8 THEN "F"
        ELSE IF fingers = <<0, 0, 0, 0, 1>> THEN "I"
        ELSE IF fingers = <<1, 1, 1, 0, 0>> /\ index_middle_dsq > 8 * 8 THEN "K"
        ELSE IF fingers = <<1, 1, 0, 0, 0>> /\ thumb_index_dsq > 15 * 15
             THEN (IF 70 < get_angle(lm[4], lm[5], lm[8])
                      /\ get_angle(lm[4], lm[5], lm[8]) < 110 THEN "L" ELSE None)
        ELSE IF sum_fingers(fingers) >= 3 /\ thumb_index_dsq < 8 * 8 THEN "O"
        ELSE IF fingers = <<0, 1, 1, 0, 0>> /\ index_middle_dsq < 5 * 5 THEN "U"
        ELSE IF fingers = <<0, 1, 1, 0, 0>> /\ index_middle_dsq > 8 * 8 THEN "V"
        ELSE IF fingers = <<0, 1, 1, 1, 0>> THEN "W"
        ELSE IF fingers = <<1, 0, 0, 0, 1>> THEN "Y"
        ELSE IF sum_fingers(fingers) = 5 THEN "HELLO"
        ELSE IF fingers = <<1, 1, 1, 1, 1>> /\ lm[8].y < lm[0].y THEN "THANKS"
        ELSE IF fingers = <<1, 1, 1, 1, 1>> THEN "PLEASE"
        ELSE IF sum_fingers(fingers) = 0 /\ lm[8].y < lm[0].y THEN "YES"
        ELSE IF fingers = <<1, 0, 0, 0, 0>> /\ lm[4].y < lm[8].y THEN "GOOD"
        ELSE IF fingers = <<1, 1, 0, 0, 0>> THEN "HELP"
        ELSE None

\* recognize_sign with the HELLO rule tested after THANKS and PLEASE instead of
\* before them.
recognize_sign_hello_last(lm) ==
    LET fingers == get_finger_status(lm)
        thumb_index_dsq == get_distance_sq(lm[4], lm[8])
        thumb_middle_dsq == get_distance_sq(lm[4], lm[12])
        index_middle_dsq == get_distance_sq(lm[8], lm[12])
        L_fires == /\ fingers = <<1, 1, 0, 0, 0>> /\ thumb_index_dsq > 15 * 15
                   /\ LET angle == get_angle(lm[4], lm[5], lm[8])
                      IN  70 < angle /\ angle < 110
    IN  IF fingers = <<1, 0, 0, 0, 0>> /\ lm[4].y > lm[8].y THEN "A"
        ELSE IF fingers = <<0, 1, 1, 1, 1>> THEN "B"
        ELSE IF sum_fingers(fingers) >= 3 /\ thumb_index_dsq > 10 * 10
                /\ thumb_index_dsq < 25 * 25 THEN "C"
        ELSE IF fingers = <<1, 1, 0, 0, 0>> /\ thumb_middle_dsq < 8 * 8 THEN "D"
        ELSE IF sum_fingers(fingers) = 0 THEN "E"
        ELSE IF fingers = <<1, 1, 1, 1, 1>> /\ thumb_index_dsq < 8 * 8 THEN "F"
        ELSE IF fingers = <<0, 0, 0, 0, 1>> THEN "I"
        ELSE IF fingers = <<1, 1, 1, 0, 0>> /\ index_middle_dsq > 8 * 8 THEN "K"
        ELSE IF L_fires THEN "L"
        ELSE IF sum_fingers(fingers) >= 3 /\ thumb_index_dsq < 8 * 8 THEN "O"
        ELSE IF fingers = <<0, 1, 1, 0, 0>> /\ index_middle_dsq < 5 * 5 THEN "U"
        ELSE IF fingers = <<0, 1, 1, 0, 0>> /\ index_middle_dsq > 8 * 8 THEN "V"
        ELSE IF fingers = <<0, 1, 1, 1, 0>> THEN "W"
        ELSE IF fingers = <<1, 0, 0, 0, 1>> THEN "Y"
        ELSE IF fingers = <<1, 1, 1, 1, 1>> /\ lm[8].y < lm[0].y THEN "THANKS"
        ELSE IF fingers = <<1, 1, 1, 1, 1>> THEN "PLEASE"
        ELSE IF sum_fingers(fingers) = 5 THEN "HELLO"
        ELSE IF sum_fingers(fingers) = 0 /\ lm[8].y < lm[0].y THEN "YES"
        ELSE IF fingers = <<1, 0, 0, 0, 0>> /\ lm[4].y < lm[8].y THEN "GOOD"
        ELSE IF fingers = <<1, 1, 0, 0, 0>> THEN "HELP"
        ELSE None

\* recognize_sign(landmarks): the if-chain of the source, in its order.  The L
\* rule's angle test is a nested if: when it fails, control falls to the O rule.
recognize_sign(lm) ==
    LET fingers == get_finger_status(lm)
        thumb_index_dsq == get_distance_sq(lm[4], lm[8])
        thumb_middle_dsq == get_distance_sq(lm[4], lm[12])
        index_middle_dsq == get_distance_sq(lm[8], lm[12])
        L_fires == /\ fingers = <<1, 1, 0, 0, 0>> /\ thumb_index_dsq > 15 * 15
                   /\ LET angle == get_angle(lm[4], lm[5], lm[8])
                      IN  70 < angle /\ angle < 110
    IN  IF fingers = <<1, 0, 0, 0, 0>> /\ lm[4].y > lm[8].y THEN "A"
        ELSE IF fingers = <<0, 1, 1, 1, 1>> THEN "B"
        ELSE IF sum_fingers(fingers) >= 3 /\ thumb_index_dsq > 10 * 10
                /\ thumb_index_dsq < 25 * 25 THEN "C"
        ELSE IF fingers = <<1, 1, 0, 0, 0>> /\ thumb_middle_dsq < 8 * 8 THEN "D"
        ELSE IF sum_fingers(fingers) = 0 THEN "E"
        ELSE IF fingers = <<1, 1, 1, 1, 1>> /\ thumb_index_dsq < 8 * 8 THEN "F"
        ELSE IF fingers = <<0, 0, 0, 0, 1>> THEN "I"
        ELSE IF fingers = <<1, 1, 1, 0, 0>> /\ index_middle_dsq > 8 * 8 THEN "K"
        ELSE IF L_fires THEN "L"
        ELSE IF sum_fingers(fingers) >= 3 /\ thumb_index_dsq < 8 * 8 THEN "O"
        ELSE IF fingers = <<0, 1, 1, 0, 0>> /\ index_middle_dsq < 5 * 5 THEN "U"
        ELSE IF fingers = <<0, 1, 1, 0, 0>> /\ index_middle_dsq > 8 * 8 THEN "V"
        ELSE IF fingers = <<0, 1, 1, 1, 0>> THEN "W"
        ELSE IF fingers = <<1, 0, 0, 0, 1>> THEN "Y"
        ELSE IF sum_fingers(fingers) = 5 THEN "HELLO"
        ELSE IF fingers = <<1, 1, 1, 1, 1>> /\ lm[8].y < lm[0].y THEN "THANKS"
        ELSE IF fingers = <<1, 1, 1, 1, 1>> THEN "PLEASE"
        ELSE IF sum_fingers(fingers) = 0 /\ lm[8].y < lm[0].y THEN "YES"
        ELSE IF fingers = <<1, 0, 0, 0, 0>> /\ lm[4].y < lm[8].y THEN "GOOD"
        ELSE IF fingers = <<1, 1, 0, 0, 0>> THEN "HELP"
        ELSE None

(***************************************************************************)
(* Landmark sets the model feeds to the classifier.  Only the landmarks    *)
(* the code reads vary: wrist 0, thumb IP 3 and tip 4, index MCP 5, PIP 6  *)
(* and tip 8, middle PIP 10 and tip 12, ring PIP 14 and tip 16, pinky PIP  *)
(* 18 and tip 20.  The thumb tip and the index tip lie on an axis or a     *)
(* diagonal through the index MCP, so that get_angle is exact.             *)
(***************************************************************************)

Centre == [x |-> 50, y |-> 50, z |-> 0]

\* Directions from the index MCP (y grows downwards on screen).
West      == [x |-> -1, y |-> 0]
East      == [x |-> 1, y |-> 0]
North     == [x |-> 0, y |-> -1]
South     == [x |-> 0, y |-> 1]
NorthWest == [x |-> -1, y |-> -1]

ThumbDirs  == {West, NorthWest, East}
ThumbLens  == {4, 12}
ThumbZ     == {0, 6}
IndexDirs  == {North, East, South}
IndexLens  == {3, 5, 12, 25}
MiddleGaps == {3, 6, 10}
WristY     == {10, 50, 90}
ThumbIpX   == {30, 70}
PipY       == {20, 80}
TipY       == {40, 60}

Point(dir, len, z) ==
    [x |-> Centre.x + len * dir.x, y |-> Centre.y + len * dir.y, z |-> z]

MkHand(wrist_y, ip_x, thumb, index_pip_y, index, middle_pip_y, gap, ring_y, pinky_y) ==
    [i \in 0..20 |->
        CASE i = 0  -> [Centre EXCEPT !.y = wrist_y]
          [] i = 3  -> [Centre EXCEPT !.x = ip_x]
          [] i = 4  -> thumb
          [] i = 6  -> [Centre EXCEPT !.y = index_pip_y]
          [] i = 8  -> index
          [] i = 10 -> [Centre EXCEPT !.y = middle_pip_y]
          [] i = 12 -> [index EXCEPT !.x = index.x + gap]
          [] i = 16 -> [Centre EXCEPT !.y = ring_y]
          [] i = 20 -> [Centre EXCEPT !.y = pinky_y]
          [] OTHER  -> Centre]

Hands ==
    { MkHand(w, ipx, Point(td, tl, tz), ip, Point(id, il, 0), mp, g, r, p) :
        w \in WristY, ipx \in ThumbIpX, td \in ThumbDirs, tl \in ThumbLens,
        tz \in ThumbZ, ip \in PipY, id \in IndexDirs, il \in IndexLens,
        mp \in PipY, g \in MiddleGaps, r \in TipY, p \in TipY }

\* A fist with the thumb out and below the index tip: classified A.
HandA == MkHand(90, 70, Point(West, 12, 0), 20, Point(North, 12, 0), 20, 3, 60, 60)
\* Four fingers up, thumb tucked: classified B.
HandB == MkHand(90, 30, Point(West, 4, 0), 80, Point(North, 12, 0), 80, 3, 40, 40)
\* Middle finger only: no rule matches.
HandNoMatch == MkHand(90, 30, Point(West, 4, 0), 20, Point(North, 12, 0), 80, 3, 60, 60)
\* results.multi_hand_landmarks: the empty list when MediaPipe finds no hand,
\* else one landmark set (max_num_hands = 1).
NoHand == <<>>

(***************************************************************************)
(* The hold timer                                                          *)
(***************************************************************************)

\* self.cooldown, tenths of a second.
cooldown == 15

\* is_sign_ready(sign) changed to require strictly more than the cooldown.
is_sign_ready_strict(self, sign, current_time) ==
    IF sign # self.last_sign
    THEN [ret |-> FALSE, last_sign |-> sign, last_sign_time |-> current_time]
    ELSE IF (current_time - self.last_sign_time) > cooldown
    THEN [ret |-> TRUE, last_sign |-> self.last_sign, last_sign_time |-> current_time]
    ELSE [ret |-> FALSE, last_sign |-> self.last_sign,
          last_sign_time |-> self.last_sign_time]

\* is_sign_ready(sign) changed to keep the old hold start when the sign changes.
is_sign_ready_keeps_start(self, sign, current_time) ==
    IF sign # self.last_sign
    THEN [ret |-> FALSE, last_sign |-> sign, last_sign_time |-> self.last_sign_time]
    ELSE IF (current_time - self.last_sign_time) >= cooldown
    THEN [ret |-> TRUE, last_sign |-> self.last_sign, last_sign_time |-> current_time]
    ELSE [ret |-> FALSE, last_sign |-> self.last_sign,
          last_sign_time |-> self.last_sign_time]

\* is_sign_ready(sign) on the recognizer self = [last_sign, last_sign_time],
\* with current_time the value time.time() returns in it: the value returned
\* and the recognizer's fields after the call.
is_sign_ready(self, sign, current_time) ==
    IF sign # self.last_sign
    THEN [ret |-> FALSE, last_sign |-> sign, last_sign_time |-> current_time]
    ELSE IF (current_time - self.last_sign_time) >= cooldown
    THEN [ret |-> TRUE, last_sign |-> self.last_sign, last_sign_time |-> current_time]
    ELSE [ret |-> FALSE, last_sign |-> self.last_sign,
          last_sign_time |-> self.last_sign_time]

\* The recognizer as the capture loop finds it.
recognizer == [last_sign |-> last_sign, last_sign_time |-> last_sign_time]

(***************************************************************************)
(* The transcript                                                          *)
(***************************************************************************)

\* maxlen of self.sign_history.
HistoryCap == 10

\* The characters of a sign's text, as  current_text += sign  appends them.
Chars(sign) ==
    CASE sign = "HELLO"  -> <<"H", "E", "L", "L", "O">>
      [] sign = "THANKS" -> <<"T", "H", "A", "N", "K", "S">>
      [] sign = "PLEASE" -> <<"P", "L", "E", "A", "S", "E">>
      [] sign = "YES"    -> <<"Y", "E", "S">>
      [] sign = "GOOD"   -> <<"G", "O", "O", "D">>
      [] sign = "HELP"   -> <<"H", "E", "L", "P">>
      [] OTHER           -> <<sign>>

\* len(text.split()): the number of maximal runs of non-blank characters.
word_count(text) ==
    Cardinality({i \in 1..Len(text) :
                    text[i] # " " /\ (i = 1 \/ text[i - 1] = " ")})

\* deque.append without the maxlen: nothing is ever dropped.
deque_append_unbounded(d, x) == Append(d, x)

\* deque.append on a deque with maxlen: a full deque drops its oldest entry.
deque_append(d, x) ==
    IF Len(d) = HistoryCap THEN Append(Tail(d), x) ELSE Append(d, x)

\* add_sign(sign) changed to count a sign of several letters once per letter.
add_sign_counts_letters(sign) ==
    /\ current_text' = current_text \o Chars(sign)
    /\ sign_history' = deque_append(sign_history, sign)
    /\ total_signs' = total_signs + Len(Chars(sign))
    /\ words_label' = word_count(current_text')
    /\ appended' = Append(appended, sign)

\* add_sign(sign): the buffer, the history, the counters and the word label.
add_sign(sign) ==
    /\ current_text' = current_text \o Chars(sign)
    /\ sign_history' = deque_append(sign_history, sign)
    /\ total_signs' = total_signs + 1
    /\ words_label' = word_count(current_text')
    /\ appended' = Append(appended, sign)

\* add_space(): only the buffer (and the text widget) change.
add_space ==
    /\ current_text' = Append(current_text, " ")
    /\ UNCHANGED <<sign_history, total_signs, words_label, appended>>

\* backspace() changed to delete the whole of the last sign added.
backspace_last_sign ==
    /\ current_text' =
          IF appended # <<>> /\ Len(current_text) >= Len(Chars(appended[Len(appended)]))
          THEN SubSeq(current_text, 1,
                      Len(current_text) - Len(Chars(appended[Len(appended)])))
          ELSE <<>>
    /\ UNCHANGED <<sign_history, total_signs, words_label, appended>>

\* backspace(): current_text[:-1] when the buffer is not empty.
backspace ==
    /\ current_text' =
          IF current_text # <<>>
          THEN SubSeq(current_text, 1, Len(current_text) - 1)
          ELSE current_text
    /\ UNCHANGED <<sign_history, total_signs, words_label, appended>>

\* clear_text(), answer being what the user answers to the askyesno dialog.
clear_text(answer) ==
    IF answer
    THEN /\ current_text' = <<>>
         /\ total_signs' = 0
         /\ sign_history' = <<>>
         /\ words_label' = 0
         /\ appended' = <<>>
    ELSE UNCHANGED textVars

(***************************************************************************)
(* The application after construction                                      *)
(***************************************************************************)

\* The op history variable: the handler that ran, its argument (the sign of a
\* frame or of add_sign, the answer of clear_text), how far a frame got
\* ("not_read", "no_hand", "paused", "no_match", "observed": is_sign_ready was
\* called), what is_sign_ready returned, and the recognizer's (last_sign,
\* last_sign_time) when the handler began.
Op(name, arg, stage, ret) ==
    [name |-> name, arg |-> arg, stage |-> stage, ret |-> ret,
     prev |-> <<last_sign, last_sign_time>>]

AppInit ==
    /\ now = 0
    /\ last_sign = None
    /\ last_sign_time = 0
    /\ running = FALSE
    /\ enabled = FALSE
    /\ cap = "none"
    /\ btn = [start |-> TRUE, stop |-> FALSE, enable |-> FALSE]
    /\ current_sign = None
    /\ current_text = <<>>
    /\ sign_history = <<>>
    /\ total_signs = 0
    /\ words_label = 0
    /\ appended = <<>>
    /\ interrupted = FALSE
    /\ op = Op("init", None, "", FALSE)
    /\ capture = [pc |-> "idle", sign |-> None, text |-> <<>>, count |-> 0]
    /\ ui = [pc |-> "idle", text |-> <<>>]
    /\ log = [capture |-> <<>>, ui |-> <<>>]
    /\ loops = <<>>

Init ==
    /\ landmarks = NoHand
    /\ result = Pending
    /\ AppInit

(***************************************************************************)
(* Classifier specification: every hand of Hands, classified once.         *)
(***************************************************************************)

InitClassify ==
    /\ landmarks \in Hands
    /\ result = Pending
    /\ AppInit

Classify ==
    /\ result = Pending
    /\ result' = recognize_sign(landmarks)
    /\ op' = Op("recognize_sign", None, "", FALSE)
    /\ UNCHANGED <<landmarks, now, recVars, camVars, textVars, interrupted, threadVars>>

NextClassify == Classify

SpecClassify == InitClassify /\ [][NextClassify]_vars

(***************************************************************************)
(* Camera and recognition controls, and the capture loop                   *)
(***************************************************************************)

\* The clock stops at MaxTime.
MaxTime == 31

Tick ==
    /\ now < MaxTime
    /\ now' = now + 1
    /\ op' = Op("tick", None, "", FALSE)
    /\ UNCHANGED <<classVars, recVars, camVars, textVars, interrupted, threadVars>>

\* What start_camera() assigns; opened is what cap.isOpened() answers.
start_camera_effect(opened) ==
    /\ IF opened
       THEN /\ cap' = "open"
            /\ running' = TRUE
            /\ btn' = [start |-> FALSE, stop |-> TRUE, enable |-> TRUE]
       ELSE /\ cap' = "failed"
            /\ UNCHANGED <<running, btn>>
    /\ op' = Op("start_camera", IF opened THEN "opened" ELSE "failed", "", FALSE)
    /\ UNCHANGED <<classVars, now, recVars, enabled, current_sign, textVars,
                   interrupted>>

\* start_camera() from the start button, clickable only while the camera is
\* stopped.  The thread it starts is not a separate process here: update_frame
\* below may run whenever running is set.
start_camera(opened) ==
    /\ btn.start
    /\ start_camera_effect(opened)
    /\ UNCHANGED threadVars

\* What stop_camera() assigns.
stop_camera_effect ==
    /\ running' = FALSE
    /\ enabled' = FALSE
    /\ cap' = IF cap = "none" THEN "none" ELSE "released"
    /\ btn' = [start |-> TRUE, stop |-> FALSE, enable |-> FALSE]

\* stop_camera() from the stop button.
stop_camera ==
    /\ btn.stop
    /\ stop_camera_effect
    /\ op' = Op("stop_camera", None, "", FALSE)
    /\ UNCHANGED <<classVars, now, recVars, current_sign, textVars, interrupted, threadVars>>

\* toggle_recognition() from the recognition button.
toggle_recognition ==
    /\ btn.enable
    /\ enabled' = ~enabled
    /\ op' = Op("toggle_recognition", None, "", FALSE)
    /\ UNCHANGED <<classVars, now, recVars, running, cap, btn, current_sign, textVars,
                   interrupted, threadVars>>

\* The body of update_frame's loop.  read_ok is what cap.read() answers, hands
\* is results.multi_hand_landmarks, key_q whether waitKey saw the q key.
update_frame_body(read_ok, hands, key_q) ==
    /\ read_ok => cap = "open"
    /\ IF ~read_ok
       THEN /\ op' = Op("update_frame", None, "not_read", FALSE)
            /\ UNCHANGED <<recVars, camVars, textVars, interrupted>>
       ELSE /\ IF hands # NoHand /\ enabled
               THEN LET sign == recognize_sign(hands[1])
                        r == is_sign_ready(recognizer, sign, now)
                    IN  IF sign # None
                        THEN /\ current_sign' = sign
                             /\ last_sign' = r.last_sign
                             /\ last_sign_time' = r.last_sign_time
                             /\ IF r.ret THEN add_sign(sign) ELSE UNCHANGED textVars
                             /\ interrupted' = IF r.last_sign_time = now
                                               THEN FALSE ELSE interrupted
                             /\ op' = Op("update_frame", sign, "observed", r.ret)
                        ELSE /\ current_sign' = None
                             /\ interrupted' = TRUE
                             /\ op' = Op("update_frame", None, "no_match", FALSE)
                             /\ UNCHANGED <<recVars, textVars>>
               ELSE /\ current_sign' = IF enabled THEN None ELSE current_sign
                    /\ op' = Op("update_frame", None,
                                IF hands = NoHand THEN "no_hand" ELSE "paused", FALSE)
                    /\ UNCHANGED <<recVars, textVars, interrupted>>
            /\ IF key_q
               THEN stop_camera_effect
               ELSE UNCHANGED <<running, enabled, cap, btn>>
    /\ UNCHANGED <<classVars, now>>

\* One iteration of update_frame's loop, the test of the while included.
update_frame(read_ok, hands, key_q) ==
    /\ running
    /\ update_frame_body(read_ok, hands, key_q)
    /\ UNCHANGED threadVars

\* What the camera shows in a frame.
FrameHands == {NoHand, <<HandA>>, <<HandB>>, <<HandNoMatch>>}

Next ==
    \/ Tick
    \/ \E opened \in BOOLEAN : start_camera(opened)
    \/ stop_camera
    \/ toggle_recognition
    \/ \E read_ok \in BOOLEAN, hands \in FrameHands, key_q \in BOOLEAN :
          update_frame(read_ok, hands, key_q)

Spec == Init /\ [][Next]_vars

(***************************************************************************)
(* The transcript operations on their own                                  *)
(***************************************************************************)

\* At most MaxAppends signs are added between two clears, and the buffer is
\* kept to MaxText characters.
MaxAppends == 11
MaxText == 6

\* The signs add_sign receives are labels recognize_sign can return.  The
\* first FreeAppends signs after a clear are any of FreeSigns; the later ones
\* arrive in the order of SignFeed, so that eleven distinct signs fit the bounds.
FreeAppends == 1
FreeSigns == {"A", "B", "HELP"}
SignFeed ==
    << "A", "B", "C", "HELP", "D", "E", "F", "I", "K", "L", "O", "U", "V", "W",
       "Y", "HELLO", "GOOD" >>
SignsAt(k) == IF k <= FreeAppends THEN FreeSigns ELSE {SignFeed[k]}

AddSign ==
    /\ Len(appended) < MaxAppends
    /\ \E sign \in SignsAt(Len(appended) + 1) :
           /\ Len(current_text) + Len(Chars(sign)) <= MaxText
           /\ add_sign(sign)
           /\ op' = Op("add_sign", sign, "", FALSE)
    /\ UNCHANGED <<classVars, now, recVars, camVars, interrupted, threadVars>>

AddSpace ==
    /\ Len(current_text) < MaxText
    /\ add_space
    /\ op' = Op("add_space", None, "", FALSE)
    /\ UNCHANGED <<classVars, now, recVars, camVars, interrupted, threadVars>>

Backspace ==
    /\ backspace
    /\ op' = Op("backspace", None, "", FALSE)
    /\ UNCHANGED <<classVars, now, recVars, camVars, interrupted, threadVars>>

ClearText(answer) ==
    /\ clear_text(answer)
    /\ op' = Op("clear_text", IF answer THEN "yes" ELSE "no", "", FALSE)
    /\ UNCHANGED <<classVars, now, recVars, camVars, interrupted, threadVars>>

NextText ==
    \/ AddSign
    \/ AddSpace
    \/ Backspace
    \/ \E answer \in BOOLEAN : ClearText(answer)

SpecText == Init /\ [][NextText]_vars

(***************************************************************************)
(* Threads.  start_camera starts update_frame in a daemon thread and keeps *)
(* no handle to it; the source has no lock, queue or join.  The capture    *)
(* thread calls add_sign while the Tk main thread runs the button          *)
(* handlers.  A step of a thread is what Python runs without giving the    *)
(* interpreter to the other thread: an attribute load, an attribute store, *)
(* a deque method.  x += v on an attribute is a load and a store.  A       *)
(* widget call made by the capture thread is handed to the main thread and *)
(* is served when the main thread is in its event loop, that is, in no     *)
(* handler.                                                                *)
(***************************************************************************)

MaxLoops == 2

\* start_camera() from the start button, with the thread it starts: the new
\* thread is about to test  while self.running.
start_camera_thread(opened) ==
    /\ btn.start
    /\ Len(loops) < MaxLoops
    /\ start_camera_effect(opened)
    /\ loops' = IF opened THEN Append(loops, "while") ELSE loops
    /\ UNCHANGED <<capture, ui, log>>

(***************************************************************************)
(* Transcript race specification: add_sign in the capture thread against   *)
(* add_space, backspace and clear_text in the main thread.  Of a frame     *)
(* only its add_sign call is kept: the frames that lead to it are those of *)
(* Spec.                                                                   *)
(***************************************************************************)

MaxCaptureOps == 2
MaxUiOps == 2
RaceSigns == {"A", "B"}

CaptureIdle == [pc |-> "idle", sign |-> None, text |-> <<>>, count |-> 0]
UiIdle == [pc |-> "idle", text |-> <<>>]
LogEntry(name, arg) == [name |-> name, arg |-> arg]

\* add_sign(sign) is called and loads self.current_text for  += sign.
add_sign_load_text(sign) ==
    /\ capture.pc = "idle"
    /\ running /\ enabled /\ loops # <<>>
    /\ Len(log.capture) < MaxCaptureOps
    /\ capture' = [pc |-> "store_text", sign |-> sign, text |-> current_text, count |-> 0]
    /\ log' = [log EXCEPT !.capture = Append(@, LogEntry("add_sign", sign))]
    /\ UNCHANGED <<classVars, now, recVars, camVars, textVars, interrupted, op,
                   ui, loops>>

\* self.current_text = (the loaded value) + sign
add_sign_store_text ==
    /\ capture.pc = "store_text"
    /\ current_text' = capture.text \o Chars(capture.sign)
    /\ capture' = [capture EXCEPT !.pc = "show_text", !.text = <<>>]
    /\ UNCHANGED <<classVars, now, recVars, camVars, sign_history, total_signs,
                   words_label, appended, interrupted, op, ui, log, loops>>

\* text_display.delete / insert, served by the main thread's event loop.
add_sign_show_text ==
    /\ capture.pc = "show_text"
    /\ ui.pc = "idle"
    /\ capture' = [capture EXCEPT !.pc = "append_history"]
    /\ UNCHANGED <<classVars, now, recVars, camVars, textVars, interrupted, op,
                   ui, log, loops>>

\* self.sign_history.append(sign)
add_sign_append_history ==
    /\ capture.pc = "append_history"
    /\ sign_history' = deque_append(sign_history, capture.sign)
    /\ capture' = [capture EXCEPT !.pc = "show_history"]
    /\ UNCHANGED <<classVars, now, recVars, camVars, current_text, total_signs,
                   words_label, appended, interrupted, op, ui, log, loops>>

\* history_display.config, served by the main thread's event loop.
add_sign_show_history ==
    /\ capture.pc = "show_history"
    /\ ui.pc = "idle"
    /\ capture' = [capture EXCEPT !.pc = "load_total"]
    /\ UNCHANGED <<classVars, now, recVars, camVars, textVars, interrupted, op,
                   ui, log, loops>>

\* self.total_signs += 1: the load ...
add_sign_load_total ==
    /\ capture.pc = "load_total"
    /\ capture' = [capture EXCEPT !.pc = "store_total", !.count = total_signs]
    /\ UNCHANGED <<classVars, now, recVars, camVars, textVars, interrupted, op,
                   ui, log, loops>>

\* ... and the store.
add_sign_store_total ==
    /\ capture.pc = "store_total"
    /\ total_signs' = capture.count + 1
    /\ capture' = [capture EXCEPT !.pc = "show_stats", !.count = 0]
    /\ UNCHANGED <<classVars, now, recVars, camVars, current_text, sign_history,
                   words_label, appended, interrupted, op, ui, log, loops>>

\* The word count of the buffer and the label updates that end add_sign,
\* served by the main thread's event loop.
add_sign_show_stats ==
    /\ capture.pc = "show_stats"
    /\ ui.pc = "idle"
    /\ words_label' = word_count(current_text)
    /\ appended' = Append(appended, capture.sign)
    /\ capture' = CaptureIdle
    /\ UNCHANGED <<classVars, now, recVars, camVars, current_text, sign_history,
                   total_signs, interrupted, op, ui, log, loops>>

\* add_space() is called and loads self.current_text for  += " ".
add_space_load ==
    /\ ui.pc = "idle"
    /\ Len(log.ui) < MaxUiOps
    /\ ui' = [pc |-> "add_space_store", text |-> current_text]
    /\ log' = [log EXCEPT !.ui = Append(@, LogEntry("add_space", None))]
    /\ UNCHANGED <<classVars, now, recVars, camVars, textVars, interrupted, op,
                   capture, loops>>

\* self.current_text = (the loaded value) + " ", then the main thread's own
\* widget calls.
add_space_store ==
    /\ ui.pc = "add_space_store"
    /\ current_text' = Append(ui.text, " ")
    /\ ui' = UiIdle
    /\ UNCHANGED <<classVars, now, recVars, camVars, sign_history, total_signs,
                   words_label, appended, interrupted, op, capture, log, loops>>

\* backspace() is called: the test of the buffer and, when it is not empty,
\* the load of current_text[:-1].
backspace_load ==
    /\ ui.pc = "idle"
    /\ Len(log.ui) < MaxUiOps
    /\ ui' = IF current_text # <<>>
             THEN [pc |-> "backspace_store",
                   text |-> SubSeq(current_text, 1, Len(current_text) - 1)]
             ELSE UiIdle
    /\ log' = [log EXCEPT !.ui = Append(@, LogEntry("backspace", None))]
    /\ UNCHANGED <<classVars, now, recVars, camVars, textVars, interrupted, op,
                   capture, loops>>

\* self.current_text = (the loaded slice), then the main thread's own widget
\* calls.
backspace_store ==
    /\ ui.pc = "backspace_store"
    /\ current_text' = ui.text
    /\ ui' = UiIdle
    /\ UNCHANGED <<classVars, now, recVars, camVars, sign_history, total_signs,
                   words_label, appended, interrupted, op, capture, log, loops>>

\* clear_text() once the dialog is answered: self.current_text = "".
clear_text_buffer(answer) ==
    /\ ui.pc = "idle"
    /\ Len(log.ui) < MaxUiOps
    /\ IF answer
       THEN /\ current_text' = <<>>
            /\ ui' = [pc |-> "clear_total", text |-> <<>>]
       ELSE UNCHANGED <<current_text, ui>>
    /\ log' = [log EXCEPT !.ui =
                  Append(@, LogEntry("clear_text", IF answer THEN "yes" ELSE "no"))]
    /\ UNCHANGED <<classVars, now, recVars, camVars, sign_history, total_signs,
                   words_label, appended, interrupted, op, capture, loops>>

\* self.total_signs = 0
clear_text_total ==
    /\ ui.pc = "clear_total"
    /\ total_signs' = 0
    /\ ui' = [ui EXCEPT !.pc = "clear_history"]
    /\ UNCHANGED <<classVars, now, recVars, camVars, current_text, sign_history,
                   words_label, appended, interrupted, op, capture, log, loops>>

\* self.sign_history.clear(), then the labels.
clear_text_history ==
    /\ ui.pc = "clear_history"
    /\ sign_history' = <<>>
    /\ words_label' = 0
    /\ appended' = <<>>
    /\ ui' = UiIdle
    /\ UNCHANGED <<classVars, now, recVars, camVars, current_text, total_signs,
                   interrupted, op, capture, log, loops>>

NextRace ==
    \/ \E opened \in BOOLEAN : start_camera_thread(opened)
    \/ toggle_recognition
    \/ \E sign \in RaceSigns : add_sign_load_text(sign)
    \/ add_sign_store_text
    \/ add_sign_show_text
    \/ add_sign_append_history
    \/ add_sign_show_history
    \/ add_sign_load_total
    \/ add_sign_store_total
    \/ add_sign_show_stats
    \/ add_space_load
    \/ add_space_store
    \/ backspace_load
    \/ backspace_store
    \/ \E answer \in BOOLEAN : clear_text_buffer(answer)
    \/ clear_text_total
    \/ clear_text_history

SpecRace == Init /\ [][NextRace]_vars

(***************************************************************************)
(* Capture loop specification: every update_frame thread that start_camera *)
(* has started, each one either at the test of  while self.running  or in *)
(* the body of the loop, against the camera buttons of the main thread.    *)
(***************************************************************************)

\* Thread i tests  while self.running: it enters the body, or it returns.
update_frame_while(i) ==
    /\ loops[i] = "while"
    /\ loops' = [loops EXCEPT ![i] = IF running THEN "body" ELSE "done"]
    /\ UNCHANGED <<classVars, now, recVars, camVars, textVars, interrupted, op,
                   capture, ui, log>>

\* Thread i runs the body once: back to the test after  continue  and at the
\* end of the body, out of the loop after  break.
update_frame_thread(i, read_ok, hands, key_q) ==
    /\ loops[i] = "body"
    /\ update_frame_body(read_ok, hands, key_q)
    /\ loops' = [loops EXCEPT ![i] = IF read_ok /\ key_q THEN "done" ELSE "while"]
    /\ UNCHANGED <<capture, ui, log>>

NextLoops ==
    \/ Tick
    \/ \E opened \in BOOLEAN : start_camera_thread(opened)
    \/ stop_camera
    \/ toggle_recognition
    \/ \E i \in DOMAIN loops : update_frame_while(i)
    \/ \E i \in DOMAIN loops, read_ok \in BOOLEAN, hands \in FrameHands,
          key_q \in BOOLEAN :
          update_frame_thread(i, read_ok, hands, key_q)

SpecLoops == Init /\ [][NextLoops]_vars

(***************************************************************************)
(* Classifier claims                                                       *)
(***************************************************************************)

\* The rule table of the classifier as a list of (label, predicate) pairs:
\* the labels in their fixed order ...
RuleLabels ==
    << "A", "B", "C", "D", "E", "F", "I", "K", "L", "O", "U", "V", "W", "Y",
       "HELLO", "THANKS", "PLEASE", "YES", "GOOD", "HELP" >>

\* ... and whether each rule's predicate holds of a landmark set.
RuleHolds(lm) ==
    LET f == get_finger_status(lm)
        n == sum_fingers(f)
        ti == get_distance_sq(lm[4], lm[8])
        tm == get_distance_sq(lm[4], lm[12])
        im == get_distance_sq(lm[8], lm[12])
        ang == get_angle(lm[4], lm[5], lm[8])
    IN  << f = <<1, 0, 0, 0, 0>> /\ lm[4].y > lm[8].y,
           f = <<0, 1, 1, 1, 1>>,
           n >= 3 /\ ti > 100 /\ ti < 625,
           f = <<1, 1, 0, 0, 0>> /\ tm < 64,
           n = 0,
           f = <<1, 1, 1, 1, 1>> /\ ti < 64,
           f = <<0, 0, 0, 0, 1>>,
           f = <<1, 1, 1, 0, 0>> /\ im > 64,
           f = <<1, 1, 0, 0, 0>> /\ ti > 225 /\ ang > 70 /\ ang < 110,
           n >= 3 /\ ti < 64,
           f = <<0, 1, 1, 0, 0>> /\ im < 25,
           f = <<0, 1, 1, 0, 0>> /\ im > 64,
           f = <<0, 1, 1, 1, 0>>,
           f = <<1, 0, 0, 0, 1>>,
           n = 5,
           f = <<1, 1, 1, 1, 1>> /\ lm[8].y < lm[0].y,
           f = <<1, 1, 1, 1, 1>>,
           n = 0 /\ lm[8].y < lm[0].y,
           f = <<1, 0, 0, 0, 0>> /\ lm[4].y < lm[8].y,
           f = <<1, 1, 0, 0, 0>> >>

\* The label of the first rule that holds, None when none does.
FirstMatch(lm) ==
    LET holds == RuleHolds(lm)
        hits == {i \in 1..Len(RuleLabels) : holds[i]}
    IN  IF hits = {} THEN None
        ELSE RuleLabels[CHOOSE i \in hits : \A j \in hits : i <= j]

\* C4: recognize_sign returns the label of the first rule of the ordered table
\* whose predicate holds, and None when no predicate holds, for every hand.
C4_FirstMatchWins == result # Pending => result = FirstMatch(landmarks)

\* C4 witness: thumb and index extended, far apart, at an angle outside (70, 110):
\* the L rule's extra condition fails and the hand falls through to HELP.
C4_Witness_LFallsThrough ==
    /\ result = "HELP"
    /\ get_finger_status(landmarks) = <<1, 1, 0, 0, 0>>
    /\ get_distance_sq(landmarks[4], landmarks[8]) > 225
    /\ get_angle(landmarks[4], landmarks[5], landmarks[8]) <= 70

\* C10: a hand with no finger extended is classified YES when its index tip is
\* above the wrist (index tip y < wrist y), and E otherwise.
C10_YesByOwnRule ==
    (result # Pending /\ sum_fingers(get_finger_status(landmarks)) = 0)
        => result = (IF landmarks[8].y < landmarks[0].y THEN "YES" ELSE "E")

\* C11: THANKS and PLEASE are dead rules.  No hand is classified THANKS or
\* PLEASE; a hand with all five fingers extended is answered by C, F or HELLO;
\* and when its thumb-index distance is at least 0.08 and outside (0.10, 0.25),
\* so that neither C nor F holds, it is HELLO whether the index tip is above the
\* wrist or not.
C11_ThanksPleaseDead ==
    result # Pending =>
        LET five == get_finger_status(landmarks) = <<1, 1, 1, 1, 1>>
            ti == get_distance_sq(landmarks[4], landmarks[8])
        IN  /\ result \notin {"THANKS", "PLEASE"}
            /\ five => result \in {"C", "F", "HELLO"}
            /\ (five /\ ti >= 64 /\ ~(ti > 100 /\ ti < 625)) => result = "HELLO"

\* C11 witness: all five fingers extended, thumb and index tips at least 0.25
\* apart, index tip above the wrist: the THANKS predicate holds and the answer
\* is HELLO.
C11_Witness_HelloShadowsThanks ==
    /\ result = "HELLO"
    /\ get_finger_status(landmarks) = <<1, 1, 1, 1, 1>>
    /\ get_distance_sq(landmarks[4], landmarks[8]) >= 625
    /\ landmarks[8].y < landmarks[0].y

(***************************************************************************)
(* Hold timer claims (Spec)                                                *)
(***************************************************************************)

\* A step in which update_frame called is_sign_ready (with the sign op'.arg, at
\* time now).
Observed == op'.name = "update_frame" /\ op'.stage = "observed"

\* What a run of is_sign_ready calls with one sign at the given times returns,
\* from the recognizer self.
RECURSIVE ObserveAll(_, _, _)
ObserveAll(self, sign, times) ==
    IF times = <<>> THEN <<>>
    ELSE LET r == is_sign_ready(self, sign, Head(times))
         IN  <<r.ret>> \o ObserveAll([last_sign |-> r.last_sign,
                                      last_sign_time |-> r.last_sign_time],
                                     sign, Tail(times))

\* C1: a call with a sign that is not the tracked one returns false and records
\* its time as the hold start; a call with the tracked sign returns true exactly
\* when now - hold_start >= 1.5 s, and a call that returns true makes now the
\* hold start, any other leaves it.  So A at 0.0, 1.4, 1.5, 1.6, 3.0 on a new
\* recognizer gives false, false, true, false, true.
C1_HoldTiming ==
    /\ ObserveAll([last_sign |-> None, last_sign_time |-> 0], "A", <<0, 14, 15, 16, 30>>)
          = <<FALSE, FALSE, TRUE, FALSE, TRUE>>
    /\ [][ Observed =>
          IF op'.arg # last_sign
          THEN ~op'.ret /\ last_sign_time' = now
          ELSE /\ op'.ret <=> (now - last_sign_time >= 15)
               /\ last_sign_time' = (IF op'.ret THEN now ELSE last_sign_time)
               /\ last_sign' = last_sign ]_vars

\* C1 witness: A first seen at 0.0, confirmed at 1.5 and, the hold start then
\* being 1.5, again at 3.0: the buffer reads AA at 3.0.
C1_Witness_ConfirmedTwice ==
    /\ now = 30
    /\ op.stage = "observed" /\ op.arg = "A" /\ op.ret
    /\ op.prev = <<"A", 15>>
    /\ last_sign_time = 30
    /\ current_text = <<"A", "A">>

\* C2: a call with a sign other than the tracked one returns false, makes that
\* sign the tracked one and the time of the call the hold start, and adds
\* nothing to the transcript.
C2_ResetOnChange ==
    [][ (Observed /\ op'.arg # last_sign) =>
          /\ ~op'.ret
          /\ last_sign' = op'.arg
          /\ last_sign_time' = now
          /\ UNCHANGED <<current_text, total_signs, sign_history>> ]_vars

\* C2 witness: A tracked since 0.0; B shown at 2.0, later than a full cooldown:
\* no confirmation, B tracked from 2.0.
C2_Witness_ChangeAfterLongHold ==
    /\ now = 20
    /\ op.stage = "observed" /\ op.arg = "B" /\ ~op.ret
    /\ op.prev = <<"A", 0>>
    /\ last_sign = "B" /\ last_sign_time = 20
    /\ current_text = <<>>

\* C3: a processed frame that classifies to no sign leaves no sign tracked, and
\* no sign is confirmed on a hold that a no-match frame interrupted.
C3_NoMatchResetsTracking ==
    [][ /\ (op'.name = "update_frame" /\ op'.stage = "no_match") => last_sign' = None
        /\ (Observed /\ op'.ret) => ~interrupted
      ]_vars

\* C9: pausing recognition (toggle_recognition turning it off, or stop_camera
\* from the button or the q key) leaves no sign tracked, and the first frame
\* processed after recognition is switched on again never confirms.
C9_PauseResetsHold ==
    [][ /\ (enabled /\ ~enabled') => last_sign' = None
        /\ (op.name = "toggle_recognition" /\ enabled /\ Observed) => ~op'.ret
      ]_vars

(***************************************************************************)
(* Transcript claims (SpecText)                                            *)
(***************************************************************************)

\* C5: add_sign appends the sign's text, add_space exactly one space, backspace
\* removes exactly the last character and does nothing to an empty buffer, a
\* confirmed clear empties the buffer; the buffer starts empty.
C5_BufferFollowsOps ==
    /\ current_text = <<>>
    /\ [][ /\ op'.name = "add_sign" => current_text' = current_text \o Chars(op'.arg)
           /\ op'.name = "add_space" => current_text' = current_text \o <<" ">>
           /\ op'.name = "backspace" =>
                 IF Len(current_text) = 0
                 THEN current_text' = <<>>
                 ELSE /\ Len(current_text') = Len(current_text) - 1
                      /\ \A i \in 1..Len(current_text') : current_text'[i] = current_text[i]
           /\ (op'.name = "clear_text" /\ op'.arg = "yes") => current_text' = <<>>
           /\ (op'.name = "clear_text" /\ op'.arg = "no") => current_text' = current_text
         ]_vars

\* C5 witness: A, B, space, C gave "AB C" (two words on the label), and one
\* backspace left "AB ".
C5_Witness_ABspace ==
    /\ op.name = "backspace"
    /\ appended = <<"A", "B", "C">>
    /\ words_label = 2
    /\ current_text = <<"A", "B", " ">>

\* C6: the history holds, in order of arrival, the last min(n, 10) of the n
\* signs added since the last clear.
C6_HistoryIsLastTen ==
    LET n == Len(appended)
        k == IF n < 10 THEN n ELSE 10
    IN  /\ Len(sign_history) = k
        /\ \A i \in 1..k : sign_history[i] = appended[n - k + i]

\* C6 witness: eleven distinct signs were added; the first, A, is gone and the
\* other ten remain in order.
C6_Witness_EleventhEvictsFirst ==
    /\ op.name = "add_sign"
    /\ Len(appended) = 11
    /\ \A i, j \in 1..11 : i # j => appended[i] # appended[j]
    /\ sign_history = SubSeq(appended, 2, 11)

\* C7: the counter is the number of add_sign calls since the last clear;
\* add_sign adds one, add_space and backspace leave it, a confirmed clear zeroes
\* it and empties buffer and history, a declined clear changes none of the three.
C7_SignCounter ==
    /\ [](total_signs = Len(appended))
    /\ [][ /\ op'.name = "add_sign" => total_signs' = total_signs + 1
           /\ op'.name \in {"add_space", "backspace"} => total_signs' = total_signs
           /\ (op'.name = "clear_text" /\ op'.arg = "yes") =>
                 total_signs' = 0 /\ current_text' = <<>> /\ sign_history' = <<>>
           /\ (op'.name = "clear_text" /\ op'.arg = "no") =>
                 UNCHANGED <<total_signs, current_text, sign_history>>
         ]_vars

\* C7 witness: two signs added, the second deleted again, a clear declined: the
\* counter still reads 2.
C7_Witness_DeclinedClear ==
    /\ op.name = "clear_text" /\ op.arg = "no"
    /\ total_signs = 2
    /\ current_text = <<"A">>
    /\ sign_history = <<"A", "B">>

\* C8: the word counter shown equals the number of whitespace-delimited tokens
\* of the buffer.
C8_WordLabelMatchesBuffer == words_label = word_count(current_text)

(***************************************************************************)
(* Thread claims (SpecRace)                                                *)
(***************************************************************************)

\* The transcript as the claim reads it: buffer, sign counter, history.
Transcript(text, total, history) == [text |-> text, total |-> total, history |-> history]

\* One transcript operation run alone, from start to end.
SeqStep(t, o) ==
    CASE o.name = "add_sign" ->
            Transcript(t.text \o Chars(o.arg), t.total + 1, deque_append(t.history, o.arg))
      [] o.name = "add_space" -> [t EXCEPT !.text = Append(@, " ")]
      [] o.name = "backspace" ->
            [t EXCEPT !.text = IF @ # <<>> THEN SubSeq(@, 1, Len(@) - 1) ELSE @]
      [] o.name = "clear_text" ->
            IF o.arg = "yes" THEN Transcript(<<>>, 0, <<>>) ELSE t

\* The operations of ops run one after another from the empty transcript.
RECURSIVE SeqRun(_)
SeqRun(ops) ==
    IF ops = <<>> THEN Transcript(<<>>, 0, <<>>)
    ELSE SeqStep(SeqRun(SubSeq(ops, 1, Len(ops) - 1)), ops[Len(ops)])

\* The sequential orders of two threads' calls: each thread's own order kept.
RECURSIVE Merges(_, _)
Merges(a, b) ==
    IF a = <<>> THEN {b}
    ELSE IF b = <<>> THEN {a}
    ELSE {<<Head(a)>> \o m : m \in Merges(Tail(a), b)}
         \cup {<<Head(b)>> \o m : m \in Merges(a, Tail(b))}

\* C12: transcript mutation is serialized.  Whenever neither thread is inside
\* a transcript operation, the buffer, the sign counter and the history are
\* those that some sequential order of the operations called so far produces.
C12_SerializedTranscript ==
    (capture.pc = "idle" /\ ui.pc = "idle") =>
        Transcript(current_text, total_signs, sign_history)
            \in {SeqRun(m) : m \in Merges(log.capture, log.ui)}

(***************************************************************************)
(* Thread claims (SpecLoops)                                               *)
(***************************************************************************)

\* The threads that are in the body of update_frame's loop.
InBody == {i \in DOMAIN loops : loops[i] = "body"}

\* C13: single producer.  At most one update_frame thread is in the body of
\* the loop at any time, and a thread started by an earlier start_camera never
\* enters the body again once a later start_camera has started a new thread.
C13_SingleProducer ==
    /\ [](Cardinality(InBody) <= 1)
    /\ [][\A i \in DOMAIN loops :
             (i < Len(loops) /\ loops[i] = "while") => loops'[i] # "body"]_vars

====
